---- MODULE Spec2Model ----
(***************************************************************************)
(* Model of the input-binding layer of example-teensy41-lvgl:              *)
(* handler::Handler<View> (include/handler/Handler.hpp and its two-phase   *)
(* variant), ui::DemoView with its EncoderSlider / ButtonIndicator         *)
(* widgets, context::StandaloneContext, and setup() / loop() of the        *)
(* main.cpp variants (initialisation order, halting, loop timing).         *)
(*                                                                         *)
(* Normalized float values in [0,1] are modelled as k/Den with Den a power *)
(* of two, so that value * 127 and value * 100 are exact in binary32 and   *)
(* the float-to-integer conversions are exactly the integer divisions      *)
(* written below.                                                          *)
(***************************************************************************)
EXTENDS Integers, Sequences, FiniteSets, TLC

\* ------------------------------------------------------------------------
\* Bounds of the model
\* ------------------------------------------------------------------------

\* number of binary digits of the grid of normalized values
ValueBits == 2

\* number of StandaloneContext::initialize() calls explored
MaxInit == 2

\* number of app->update() calls explored in one run of the main loop
MaxUpdates == 41

\* the shorter of the two delays between one loop() invocation and the
\* next, in microseconds; the longer one is twice as long
MinStep == 250

\* microseconds left to the wraparound of micros() when the exploration
\* of a long-running device starts
WrapLead == 1100

Den == 2 ^ ValueBits

\* the normalized values k/Den, k in 0..Den, i.e. the floats 0.0 .. 1.0
Values == 0 .. Den

\* ------------------------------------------------------------------------
\* Config.hpp
\* ------------------------------------------------------------------------

\* Config::Midi
CHANNEL == 0

BTN_CC_RANGE_START == 10

\* the encoder base of the earlier Config::Midi
ENC_CC == 16

ENC_CC_RANGE_START == 60

\* ids of Config::Encoder::ENCODERS as shipped
ShippedEncoders == <<10, 11>>

\* ids of Config::Button::BUTTONS as shipped, and with the one more entry
\* that "Adjust to your needs, add more buttons here..." invites
ShippedButtons == <<100>>

ExtendedButtons == <<100, 101>>

EncoderTables == {ShippedEncoders}

ButtonTables == {ShippedButtons, ExtendedButtons}

\* a button table long enough for its controller numbers to run into the
\* encoder range: button ENC_CC_RANGE_START - BTN_CC_RANGE_START gets the
\* controller number of encoder 0
CollidingButtons ==
    [i \in 1 .. ENC_CC_RANGE_START - BTN_CC_RANGE_START + 1 |-> 99 + i]

\* Config::Timing
APP_HZ == 2000

LVGL_HZ == 100

\* DemoView::DEFAULT_VALUE = 0.5f
DEFAULT_VALUE == Den \div 2

VARIABLES
    ENCODERS,     \* Config::Encoder::ENCODERS (ids, in table order)
    BUTTONS,      \* Config::Button::BUTTONS (ids, in table order)
    bindings,     \* callbacks registered with the input subsystem, in order
    bindCount,    \* number of times Handler::bind() has run on the instance
    position,     \* EncoderAPI: hardware position of encoder index i
    sliders_,     \* DemoView::sliders_: lv_slider value of slider i
    buttons_,     \* DemoView::buttons_: pressed state shown by indicator i
    hidden,       \* LV_OBJ_FLAG_HIDDEN of DemoView::container_
    active,       \* the framework has the context initialized
    initCount,    \* number of StandaloneContext::initialize() calls so far
    event,        \* the input event delivered last
    calls,        \* collaborator calls made while delivering that event
    button0Pressed, \* a press of the button at index 0 has been delivered
    lastCC,       \* per button controller, the value of the last CC sent
                  \* on it, -1 while none has been sent
    main,         \* which main.cpp is built
    stage,        \* "boot" before setup(), "halt" in a halt loop of
                  \* setup(), "loop" once setup() has returned
    inits,        \* the initialisation steps setup() ran, with results
    micros,       \* the reading of micros() at the last loop() invocation
    clock,        \* microseconds elapsed since the first state explored
    lastMicros,   \* static lastMicros / lastUs of loop()
    lvglAccumulator, \* static lvglAccumulator / lvglUs / lvglAccum of loop()
    updateNo,     \* number of app->update() calls explored so far
    refreshNo,    \* number of refresh() calls explored so far
    updateClock,  \* clock at the last app->update() call, -1 before it
    refreshClock, \* clock at the last refresh() call, -1 before it
    iteration     \* what the last loop() invocation called, and the time
                  \* since the call before of update and of refresh

handlerVars == <<ENCODERS, BUTTONS, bindings, bindCount, position, sliders_,
                 buttons_, hidden, active, initCount, event, calls,
                 button0Pressed, lastCC>>

mainVars == <<main, stage, inits, micros, clock, lastMicros, lvglAccumulator,
              updateNo, refreshNo, updateClock, refreshClock, iteration>>

vars == <<handlerVars, mainVars>>

ENCODER_COUNT == Len(ENCODERS)

BUTTON_COUNT == Len(BUTTONS)

\* Config::Encoder::ENCODERS[i].id, i zero-based as in the code
EncoderId(i) == ENCODERS[i + 1]

\* Config::Button::BUTTONS[i].id
ButtonId(i) == BUTTONS[i + 1]

\* ------------------------------------------------------------------------
\* Conversions
\* ------------------------------------------------------------------------

Uint8(x) == x % 256

\* value * 127 rounded half up instead of truncated
MidiValueRounded(value) == Uint8((2 * value * 127 + Den) \div (2 * Den))

\* value scaled by 128 instead of 127
MidiValueScale128(value) == Uint8((value * 128) \div Den)

\* value scaled to the full byte instead of the 7-bit range
MidiValueScale255(value) == Uint8((value * 255) \div Den)

\* uint8_t(value * 127): the float product truncated toward zero
MidiValue(value) == Uint8((value * 127) \div Den)

\* int32_t(normalized * 100) in EncoderSlider::setValue
SliderValue(normalized) == (normalized * 100) \div Den

\* ------------------------------------------------------------------------
\* The collaborators.  A world w is the record of everything a callback
\* can change: the call log, the encoder hardware positions, the slider
\* values and the button indicators.
\* ------------------------------------------------------------------------

Log(w, c) == [w EXCEPT !.calls = Append(@, c)]

\* a sendCC that sends the message a second time
SendCCRetrying(w, channel, cc, value) ==
    Log(Log(w, [op |-> "sendCC", channel |-> channel, cc |-> cc,
                value |-> value]),
        [op |-> "sendCC", channel |-> channel, cc |-> cc, value |-> value])

\* MidiAPI::sendCC(channel, cc, value): fire and forget
SendCC(w, channel, cc, value) ==
    Log(w, [op |-> "sendCC", channel |-> channel, cc |-> cc, value |-> value])

\* EncoderAPI::setPosition(id, value)
SetPosition(w, id, value) ==
    LET w1 == Log(w, [op |-> "setPosition", id |-> id, pos |-> value])
    IN  [w1 EXCEPT !.position =
            [i \in DOMAIN @ |-> IF EncoderId(i) = id THEN value ELSE @[i]]]

\* a setEncoder that moves every slider
SetEncoderAllSliders(w, index, value) ==
    LET w1 == Log(w, [op |-> "setEncoder", index |-> index, v |-> value])
    IN  [w1 EXCEPT !.sliders = [i \in DOMAIN @ |-> SliderValue(value)]]

\* DemoView::setEncoder(index, value)
SetEncoder(w, index, value) ==
    LET w1 == Log(w, [op |-> "setEncoder", index |-> index, v |-> value])
    IN  IF index < ENCODER_COUNT
        THEN [w1 EXCEPT !.sliders[index] = SliderValue(value)]
        ELSE w1

\* a setButton that shows the opposite state
SetButtonInverted(w, index, pressed) ==
    LET w1 == Log(w, [op |-> "setButton", index |-> index, pressed |-> pressed])
    IN  IF index < BUTTON_COUNT
        THEN [w1 EXCEPT !.buttons[index] = ~pressed]
        ELSE w1

\* DemoView::setButton(index, pressed)
SetButton(w, index, pressed) ==
    LET w1 == Log(w, [op |-> "setButton", index |-> index, pressed |-> pressed])
    IN  IF index < BUTTON_COUNT
        THEN [w1 EXCEPT !.buttons[index] = pressed]
        ELSE w1

\* DemoView::resetEncoderPositions()
ResetEncoderPositions(w) ==
    LET w1 == Log(w, [op |-> "resetEncoderPositions"])
    IN  [w1 EXCEPT !.sliders = [i \in DOMAIN @ |-> SliderValue(DEFAULT_VALUE)]]

\* ------------------------------------------------------------------------
\* handler::Handler<View>
\* ------------------------------------------------------------------------

\* the encoder CC sent on the button range
SendEncoderCCOnButtonRange(w, index, value) ==
    SendCC(w, CHANNEL, BTN_CC_RANGE_START + index, MidiValue(value))

\* Handler::sendEncoderCC(index, value)
SendEncoderCC(w, index, value) ==
    SendCC(w, CHANNEL, ENC_CC_RANGE_START + index, MidiValue(value))

\* the button CC sent on the encoder range
SendButtonCCOnEncoderRange(w, index, value) ==
    SendCC(w, CHANNEL, ENC_CC_RANGE_START + index, Uint8(value))

\* Handler::sendButtonCC(index, value)
SendButtonCC(w, index, value) ==
    SendCC(w, CHANNEL, BTN_CC_RANGE_START + index, Uint8(value))

RECURSIVE ResetLoop(_, _)
\* the for loop of Handler::resetAllEncoders, from index i on
ResetLoop(w, i) ==
    IF i < ENCODER_COUNT
    THEN ResetLoop(SetPosition(w, EncoderId(i), DEFAULT_VALUE), i + 1)
    ELSE w

\* the view reset before the hardware positions are synced
ResetAllEncodersViewFirst(w) == ResetLoop(ResetEncoderPositions(w), 0)

\* the view reset without syncing the hardware positions
ResetAllEncodersViewOnly(w) == ResetEncoderPositions(w)

\* a reset that also reports the new position of encoder 0 over MIDI
ResetAllEncodersSendingCC(w) ==
    ResetEncoderPositions(SendEncoderCC(ResetLoop(w, 0), 0, DEFAULT_VALUE))

\* Handler::resetAllEncoders()
ResetAllEncoders(w) == ResetEncoderPositions(ResetLoop(w, 0))

\* a reset on the press of every button
OnButtonPressAnyIndex(w, index) == ResetAllEncoders(w)

\* Handler::onButtonPress(index)
OnButtonPress(w, index) ==
    IF index = 0 THEN ResetAllEncoders(w) ELSE w

\* a turn callback that sends the CC and leaves the view alone
TurnCallbackNoView(w, i, value) == SendEncoderCC(w, i, value)

\* a turn callback that forwards the next index to the view
TurnCallbackNextIndex(w, i, value) ==
    SetEncoder(SendEncoderCC(w, i, value), i + 1, value)

\* the lambda bound to turn() in Handler::bindEncoders, capturing i
TurnCallback(w, i, value) ==
    SetEncoder(SendEncoderCC(w, i, value), i, value)

\* a press callback that runs the reset before the CC and the view call
PressCallbackResetFirst(w, i) ==
    SetButton(SendButtonCC(OnButtonPress(w, i), i, 127), i, TRUE)

\* a press callback that does not forward the state to the view
PressCallbackNoView(w, i) ==
    OnButtonPress(SendButtonCC(w, i, 127), i)

\* the lambda bound to press() in Handler::bindButtons, capturing i
PressCallback(w, i) ==
    OnButtonPress(SetButton(SendButtonCC(w, i, 127), i, TRUE), i)

\* the lambda bound to release() in Handler::bindButtons, capturing i
ReleaseCallback(w, i) ==
    SetButton(SendButtonCC(w, i, 0), i, FALSE)

RECURSIVE BindEncoders(_, _)
\* Handler::bindEncoders(): the registrations added from index i on
BindEncoders(b, i) ==
    IF i < ENCODER_COUNT
    THEN BindEncoders(
            Append(b, [ev |-> "turn", id |-> EncoderId(i), index |-> i]),
            i + 1)
    ELSE b

RECURSIVE BindButtons(_, _)
\* Handler::bindButtons(): the registrations added from index i on
BindButtons(b, i) ==
    IF i < BUTTON_COUNT
    THEN BindButtons(
            Append(Append(b,
                [ev |-> "press", id |-> ButtonId(i), index |-> i]),
                [ev |-> "release", id |-> ButtonId(i), index |-> i]),
            i + 1)
    ELSE b

\* bind() running bindEncoders() twice
HandlerBindTwice(b) == BindButtons(BindEncoders(BindEncoders(b, 0), 0), 0)

\* Handler::bind()
HandlerBind(b) == BindButtons(BindEncoders(b, 0), 0)

\* ------------------------------------------------------------------------
\* The input subsystem: an event for a control id runs, in registration
\* order, every callback registered for that event type and id.
\* ------------------------------------------------------------------------

Invoke(w, b, value) ==
    CASE b.ev = "turn"    -> TurnCallback(w, b.index, value)
      [] b.ev = "press"   -> PressCallback(w, b.index)
      [] b.ev = "release" -> ReleaseCallback(w, b.index)

RECURSIVE Dispatch(_, _, _, _, _)
Dispatch(w, n, ev, id, value) ==
    IF n > Len(bindings)
    THEN w
    ELSE IF bindings[n].ev = ev /\ bindings[n].id = id
         THEN Dispatch(Invoke(w, bindings[n], value), n + 1, ev, id, value)
         ELSE Dispatch(w, n + 1, ev, id, value)

\* the world a delivery starts from: an empty call log, the encoders at
\* the positions pos, the view as it is
World(pos) == [calls |-> <<>>, position |-> pos,
               sliders |-> sliders_, buttons |-> buttons_]

\* some encoder or some slider is away from the default when the event
\* arrives (recorded with the event, for the reset claims)
Stale ==
    \E j \in DOMAIN position :
        position[j] # DEFAULT_VALUE \/ sliders_[j] # SliderValue(DEFAULT_VALUE)

\* the controller numbers Config::Midi reserves for the buttons
ButtonControllers ==
    {BTN_CC_RANGE_START + i : i \in 0 .. Len(BUTTONS) - 1}

\* the value of the last CC the call log sends on controller c, or prev
\* when it sends none
LastSent(log, c, prev) ==
    LET S == {n \in DOMAIN log : log[n].op = "sendCC" /\ log[n].cc = c}
    IN  IF S = {} THEN prev
        ELSE log[CHOOSE n \in S : \A m \in S : m <= n].value

Deliver(ev, id, index, value, pos) ==
    LET w == Dispatch(World(pos), 1, ev, id, value)
    IN  /\ calls' = w.calls
        /\ button0Pressed' = (button0Pressed \/ (ev = "press" /\ index = 0))
        /\ lastCC' = [c \in DOMAIN lastCC |-> LastSent(w.calls, c, lastCC[c])]
        /\ position' = w.position
        /\ sliders_' = w.sliders
        /\ buttons_' = w.buttons
        /\ event' = [ev |-> ev, id |-> id, index |-> index, value |-> value,
                     stale |-> Stale]

\* ------------------------------------------------------------------------
\* State machine
\* ------------------------------------------------------------------------

NoEvent == [ev |-> "none", id |-> 0, index |-> 0, value |-> 0,
            stale |-> FALSE]

\* uint32_t: a 32-bit word as its two 16-bit halves (the word hi * 2^16 +
\* lo), with the arithmetic modulo 2^32 of the unsigned type
Half == 2 ^ 16

\* the word of the number n, 0 <= n < 2^31
Word(n) == [hi |-> n \div Half, lo |-> n % Half]

\* a + b in uint32_t
Add32(a, b) ==
    [hi |-> (a.hi + b.hi + (a.lo + b.lo) \div Half) % Half,
     lo |-> (a.lo + b.lo) % Half]

\* a - b in uint32_t
Sub32(a, b) ==
    [hi |-> (a.hi - b.hi - (IF a.lo < b.lo THEN 1 ELSE 0)) % Half,
     lo |-> (a.lo - b.lo) % Half]

\* a < b and a >= b on uint32_t
Less32(a, b) == a.hi < b.hi \/ (a.hi = b.hi /\ a.lo < b.lo)

GreaterEq32(a, b) == ~Less32(a, b)

NoIteration == [calls |-> <<>>, updateGap |-> -1, refreshGap |-> -1]

\* the main program at power-up: setup() not yet entered, the statics of
\* loop() zero-initialised, micros() at 0
AtPowerUp ==
    /\ stage = "boot"
    /\ inits = <<>>
    /\ micros = Word(0)
    /\ clock = 0
    /\ lastMicros = Word(0)
    /\ lvglAccumulator = Word(0)
    /\ updateNo = 0
    /\ refreshNo = 0
    /\ updateClock = -1
    /\ refreshClock = -1
    /\ iteration = NoIteration

\* After construction: DemoView() has created one EncoderSlider per encoder
\* (each constructor ends with setValue(0.5f)) and one ButtonIndicator per
\* button (released colour); the Handler is constructed and not yet bound;
\* the physical encoders are wherever they happen to be.
Init ==
    /\ ENCODERS \in EncoderTables
    /\ BUTTONS \in ButtonTables
    /\ bindings = <<>>
    /\ bindCount = 0
    /\ position \in [0 .. Len(ENCODERS) - 1 -> Values]
    /\ sliders_ = [i \in 0 .. Len(ENCODERS) - 1 |-> SliderValue(DEFAULT_VALUE)]
    /\ buttons_ = [i \in 0 .. Len(BUTTONS) - 1 |-> FALSE]
    /\ hidden = FALSE
    /\ active = FALSE
    /\ initCount = 0
    /\ event = NoEvent
    /\ calls = <<>>
    /\ button0Pressed = FALSE
    /\ lastCC = [c \in ButtonControllers |-> -1]
    /\ main = "result"
    /\ AtPowerUp

\* Handler::bind() called by the owner of a freshly constructed Handler
Bind ==
    /\ bindCount = 0
    /\ bindings' = HandlerBind(bindings)
    /\ bindCount' = bindCount + 1
    /\ UNCHANGED <<ENCODERS, BUTTONS, position, sliders_, buttons_, hidden,
                   active, initCount, event, calls, button0Pressed, lastCC,
                   mainVars>>

\* the input subsystem reports encoder i turned to the position value;
\* input is polled by app->update() in loop(), after app->begin() in
\* setup() has initialized the context and so bound the Handler
Turned(i, value) ==
    /\ bindCount > 0
    /\ Deliver("turn", EncoderId(i), i, value,
               [position EXCEPT ![i] = value])
    /\ UNCHANGED <<ENCODERS, BUTTONS, bindings, bindCount, hidden, active,
                   initCount,
                   mainVars>>

\* the input subsystem reports button i pressed
Pressed(i) ==
    /\ bindCount > 0
    /\ Deliver("press", ButtonId(i), i, 0, position)
    /\ UNCHANGED <<ENCODERS, BUTTONS, bindings, bindCount, hidden, active,
                   initCount,
                   mainVars>>

\* the input subsystem reports button i released
Released(i) ==
    /\ bindCount > 0
    /\ Deliver("release", ButtonId(i), i, 0, position)
    /\ UNCHANGED <<ENCODERS, BUTTONS, bindings, bindCount, hidden, active,
                   initCount,
                   mainVars>>

\* StandaloneContext::initialize(): view_.onActivate(), then
\* handler_.setup(...), which stores the collaborators and calls bind()
CtxInitialize ==
    /\ ~active
    /\ initCount < MaxInit
    /\ hidden' = FALSE
    /\ bindings' = HandlerBind(bindings)
    /\ bindCount' = bindCount + 1
    /\ active' = TRUE
    /\ initCount' = initCount + 1
    /\ UNCHANGED <<ENCODERS, BUTTONS, position, sliders_, buttons_, event,
                   calls, button0Pressed, lastCC,
                   mainVars>>

\* StandaloneContext::cleanup(): view_.onDeactivate()
CtxCleanup ==
    /\ active
    /\ hidden' = TRUE
    /\ active' = FALSE
    /\ UNCHANGED <<ENCODERS, BUTTONS, bindings, bindCount, position, sliders_,
                   buttons_, initCount, event, calls, button0Pressed, lastCC,
                   mainVars>>

Next ==
    \/ Bind
    \/ \E i \in 0 .. ENCODER_COUNT - 1 : \E value \in Values : Turned(i, value)
    \/ \E i \in 0 .. BUTTON_COUNT - 1 : Pressed(i)
    \/ \E i \in 0 .. BUTTON_COUNT - 1 : Released(i)

Spec == Init /\ [][Next]_vars

\* the two-phase StandaloneContext driven by the framework
NextCtx ==
    \/ CtxInitialize
    \/ CtxCleanup
    \/ \E i \in 0 .. ENCODER_COUNT - 1 : \E value \in Values : Turned(i, value)
    \/ \E i \in 0 .. BUTTON_COUNT - 1 : Pressed(i)
    \/ \E i \in 0 .. BUTTON_COUNT - 1 : Released(i)

SpecCtx == Init /\ [][NextCtx]_vars

\* ------------------------------------------------------------------------
\* main.cpp: setup() and loop()
\*
\* "result" is the main whose init steps return Result<void> and go through
\* checkOrHalt; "bool" stands for the mains whose init steps return bool and
\* whose loop() adds the nominal period to the accumulator; "delta" is the
\* bool main whose loop() adds the measured deltaUs (it reads the periods
\* from the like-named constants of its Config::Timing).
\* ------------------------------------------------------------------------

Mains == {"result", "bool", "delta"}

APP_PERIOD_US == 1000000 \div APP_HZ

LVGL_PERIOD_US == 1000000 \div LVGL_HZ

\* the delays explored between one loop() invocation and the next
TimeSteps == {MinStep, 2 * MinStep}

InitStep(step, ok) == [step |-> step, ok |-> ok]

\* setup() of the Result-based main: initDisplay() and initLVGL() pass the
\* result to checkOrHalt, initApp() calls app->begin() and drops the result
SetupResult(okDisplay, okLVGL, okApp) ==
    IF ~okDisplay
    THEN [inits |-> <<InitStep("display", FALSE)>>, stage |-> "halt"]
    ELSE IF ~okLVGL
    THEN [inits |-> <<InitStep("display", TRUE), InitStep("lvgl", FALSE)>>,
          stage |-> "halt"]
    ELSE [inits |-> <<InitStep("display", TRUE), InitStep("lvgl", TRUE),
                      InitStep("app", okApp)>>,
          stage |-> "loop"]

\* a bool setup() that reports a failed step and goes on
SetupBoolReportOnly(okDisplay, okLVGL, okApp) ==
    [inits |-> <<InitStep("display", okDisplay), InitStep("lvgl", okLVGL),
                 InitStep("app", okApp)>>,
     stage |-> "loop"]

\* setup() of the bool mains: if (!initX()) { ...; while (true); } for
\* display, LVGL, app in this order
SetupBool(okDisplay, okLVGL, okApp) ==
    IF ~okDisplay
    THEN [inits |-> <<InitStep("display", FALSE)>>, stage |-> "halt"]
    ELSE IF ~okLVGL
    THEN [inits |-> <<InitStep("display", TRUE), InitStep("lvgl", FALSE)>>,
          stage |-> "halt"]
    ELSE IF ~okApp
    THEN [inits |-> <<InitStep("display", TRUE), InitStep("lvgl", TRUE),
                      InitStep("app", FALSE)>>,
          stage |-> "halt"]
    ELSE [inits |-> <<InitStep("display", TRUE), InitStep("lvgl", TRUE),
                      InitStep("app", TRUE)>>,
          stage |-> "loop"]

\* the difference of the larger and the smaller reading
ElapsedAbsolute(now, last) ==
    IF Less32(now, last) THEN Sub32(last, now) ELSE Sub32(now, last)

\* now - lastMicros in uint32_t
Elapsed(now, last) == Sub32(now, last)

\* every main adding the measured delta
AccumulateMeasured(m, delta) == delta

\* no main adding anything
AccumulateNothing(m, delta) == Word(0)

\* what loop() adds to the accumulator after an update: the nominal
\* APP_PERIOD_US, or deltaUs in the main that measures
Accumulate(m, delta) == IF m = "delta" THEN delta ELSE Word(APP_PERIOD_US)

\* a refresh as soon as one application period has accumulated
RefreshDueEveryUpdate(acc) == GreaterEq32(acc, Word(APP_PERIOD_US))

\* if (lvglAccumulator >= LVGL_PERIOD_US)
RefreshDue(acc) == GreaterEq32(acc, Word(LVGL_PERIOD_US))

\* setup(), run once after power-up, with the results of the three
\* initialisation steps.  A successful app->begin() initializes the
\* registered StandaloneContext, which binds the Handler.
Setup(okDisplay, okLVGL, okApp) ==
    /\ stage = "boot"
    /\ LET r == IF main = "result"
                THEN SetupResult(okDisplay, okLVGL, okApp)
                ELSE SetupBool(okDisplay, okLVGL, okApp)
           begun == Len(r.inits) = 3 /\ okApp
       IN  /\ inits' = r.inits
           /\ stage' = r.stage
           /\ bindings' = IF begun THEN HandlerBind(bindings) ELSE bindings
           /\ bindCount' = IF begun THEN bindCount + 1 ELSE bindCount
           /\ active' = begun
           /\ initCount' = IF begun THEN initCount + 1 ELSE initCount
    /\ UNCHANGED <<ENCODERS, BUTTONS, position, sliders_, buttons_, hidden,
                   event, calls, button0Pressed, lastCC, main, micros, clock,
                   lastMicros, lvglAccumulator,
                   updateNo, refreshNo, updateClock, refreshClock, iteration>>

\* one invocation of loop(), step microseconds after the one before
Loop(step) ==
    /\ stage = "loop"
    /\ updateNo < MaxUpdates
    /\ clock' = clock + step
    /\ micros' = Add32(micros, Word(step))
    /\ LET now == Add32(micros, Word(step))
           delta == Elapsed(now, lastMicros)
           acc == Add32(lvglAccumulator, Accumulate(main, delta))
       IN  IF Less32(delta, Word(APP_PERIOD_US))
           THEN /\ iteration' = NoIteration
                /\ UNCHANGED <<lastMicros, lvglAccumulator, updateNo,
                               refreshNo, updateClock, refreshClock>>
           ELSE /\ lastMicros' = now
                /\ updateNo' = updateNo + 1
                /\ updateClock' = clock + step
                /\ lvglAccumulator' = IF RefreshDue(acc) THEN Word(0)
                                                          ELSE acc
                /\ refreshNo' = IF RefreshDue(acc) THEN refreshNo + 1
                                                   ELSE refreshNo
                /\ refreshClock' = IF RefreshDue(acc) THEN clock + step
                                                      ELSE refreshClock
                /\ iteration' =
                     [calls |-> IF RefreshDue(acc)
                                THEN <<"update", "refresh">>
                                ELSE <<"update">>,
                      updateGap |-> IF updateClock < 0 THEN -1
                                    ELSE clock + step - updateClock,
                      refreshGap |-> IF RefreshDue(acc) /\ refreshClock >= 0
                                     THEN clock + step - refreshClock
                                     ELSE -1]
    /\ UNCHANGED <<handlerVars, main, stage, inits>>

\* the device as built and switched on: one of the mains, the shipped
\* tables or (in the current main) a button table that has outgrown its
\* controller range, every encoder at rest at the default
InitPowerUp ==
    /\ main \in Mains
    /\ ENCODERS = ShippedEncoders
    /\ BUTTONS \in IF main = "result" THEN {ShippedButtons, CollidingButtons}
                                     ELSE {ShippedButtons}
    /\ bindings = <<>>
    /\ bindCount = 0
    /\ active = FALSE
    /\ initCount = 0
    /\ AtPowerUp

\* the device after about 71 minutes of running, WrapLead microseconds
\* before micros() wraps: setup() has succeeded long ago and the latest
\* loop() invocation has just called update and refresh
InitRunning ==
    /\ main \in Mains
    /\ ENCODERS = ShippedEncoders
    /\ BUTTONS = ShippedButtons
    /\ bindings = HandlerBind(<<>>)
    /\ bindCount = 1
    /\ active = TRUE
    /\ initCount = 1
    /\ stage = "loop"
    /\ inits = SetupBool(TRUE, TRUE, TRUE).inits
    /\ micros = Sub32(Word(0), Word(WrapLead))
    /\ clock = 0
    /\ lastMicros = Sub32(Word(0), Word(WrapLead))
    /\ lvglAccumulator = Word(0)
    /\ updateNo = 0
    /\ refreshNo = 0
    /\ updateClock = 0
    /\ refreshClock = 0
    /\ iteration = NoIteration

InitMain ==
    /\ InitPowerUp \/ InitRunning
    /\ position = [i \in 0 .. Len(ENCODERS) - 1 |-> DEFAULT_VALUE]
    /\ sliders_ = [i \in 0 .. Len(ENCODERS) - 1 |-> SliderValue(DEFAULT_VALUE)]
    /\ buttons_ = [i \in 0 .. Len(BUTTONS) - 1 |-> FALSE]
    /\ hidden = FALSE
    /\ event = NoEvent
    /\ calls = <<>>
    /\ button0Pressed = FALSE
    /\ lastCC = [c \in ButtonControllers |-> -1]

NextMain ==
    \/ \E okDisplay, okLVGL, okApp \in BOOLEAN : Setup(okDisplay, okLVGL, okApp)
    \/ \E step \in TimeSteps : Loop(step)

SpecMain == InitMain /\ [][NextMain]_vars

\* the Arduino core calls loop() again whenever it returns
SpecMainFair == SpecMain /\ WF_vars(\E step \in TimeSteps : Loop(step))

\* ------------------------------------------------------------------------
\* Properties
\* ------------------------------------------------------------------------

\* positions in the call log of the calls with operation op
CallsOf(op) == {n \in DOMAIN calls : calls[n].op = op}

ViewOps == {"setEncoder", "setButton", "resetEncoderPositions"}

ViewCalls == {n \in DOMAIN calls : calls[n].op \in ViewOps}

\* C1: a turned event for ENCODERS[i].id with value v produces exactly one
\* MIDI CC, on the configured channel with controller ENC_CC_RANGE_START + i,
\* and exactly one view call, setEncoder(i, v); nothing else is called.
C1_TurnedOneCCOneSetEncoder ==
    event.ev = "turn" =>
        /\ event.id = EncoderId(event.index)
        /\ Cardinality(CallsOf("sendCC")) = 1
        /\ \A n \in CallsOf("sendCC") :
              /\ calls[n].channel = CHANNEL
              /\ calls[n].cc = ENC_CC_RANGE_START + event.index
        /\ Cardinality(ViewCalls) = 1
        /\ \A n \in ViewCalls :
              /\ calls[n].op = "setEncoder"
              /\ calls[n].index = event.index
              /\ calls[n].v = event.value
        /\ Len(calls) = 2

C1_Witness ==
    /\ event.ev = "turn"
    /\ event.index = 1
    /\ event.id = 11
    /\ Len(calls) = 2
    /\ \E n \in DOMAIN calls : calls[n].op = "sendCC" /\ calls[n].cc = 61

\* round(v * 127), halves rounded up, clamped to [0, 127], of v = value/Den
RoundHalfUpClamped(value) ==
    LET r == (2 * value * 127 + Den) \div (2 * Den)
    IN  IF r > 127 THEN 127 ELSE IF r < 0 THEN 0 ELSE r

\* C2 as stated: the CC value of a turned event with value v is
\* round(v * 127) with halves rounded up, clamped to [0, 127].
C2_RoundHalfUp ==
    event.ev = "turn" =>
        \A n \in CallsOf("sendCC") :
            calls[n].value = RoundHalfUpClamped(event.value)

\* C2 (amended): the CC value of a turned event with value v in [0,1] is
\* the float product v * 127 truncated toward zero; on the grid of values,
\* where the product is exact, it is the integer c with
\* c <= v * 127 < c + 1.  In particular v = 0.5 yields 63.
C2_Truncates ==
    event.ev = "turn" =>
        /\ CallsOf("sendCC") # {}
        /\ \A n \in CallsOf("sendCC") :
              /\ calls[n].value \in 0 .. 127
              /\ calls[n].value * Den <= event.value * 127
              /\ event.value * 127 < (calls[n].value + 1) * Den
              /\ (2 * event.value = Den => calls[n].value = 63)

C2_Witness ==
    /\ event.ev = "turn"
    /\ 2 * event.value = Den
    /\ \E n \in DOMAIN calls : calls[n].op = "sendCC" /\ calls[n].value = 63

\* C3: a turned event with v = 0.0 emits CC value 0 and one with v = 1.0
\* emits CC value 127, for every encoder index.
C3_Boundaries ==
    event.ev = "turn" =>
        /\ CallsOf("sendCC") # {}
        /\ \A n \in CallsOf("sendCC") :
              /\ (event.value = 0 => calls[n].value = 0)
              /\ (event.value = Den => calls[n].value = 127)

C3_Witness ==
    /\ event.ev = "turn"
    /\ event.value = Den
    /\ event.index = ENCODER_COUNT - 1
    /\ \E n \in DOMAIN calls : calls[n].op = "sendCC" /\ calls[n].value = 127

\* C4: a pressed event of button i emits exactly one MIDI CC, controller
\* BTN_CC_RANGE_START + i with value 127, and forwards setButton(i, true);
\* a released event emits exactly one MIDI CC on the same controller with
\* value 0 and forwards setButton(i, false).
C4_ButtonCC ==
    event.ev \in {"press", "release"} =>
        LET down == (event.ev = "press") IN
        /\ event.id = ButtonId(event.index)
        /\ Cardinality(CallsOf("sendCC")) = 1
        /\ \A n \in CallsOf("sendCC") :
              /\ calls[n].cc = BTN_CC_RANGE_START + event.index
              /\ calls[n].value = (IF down THEN 127 ELSE 0)
        /\ Cardinality(CallsOf("setButton")) = 1
        /\ \A n \in CallsOf("setButton") :
              /\ calls[n].index = event.index
              /\ calls[n].pressed = down
        /\ buttons_[event.index] = down

C4_Witness ==
    /\ event.ev = "press"
    /\ event.index = 1
    /\ \E n \in DOMAIN calls : calls[n].op = "sendCC" /\ calls[n].cc = 11
                                /\ calls[n].value = 127
    /\ buttons_[1] = TRUE
    /\ buttons_[0] = FALSE

\* C5: on every press of the button at index 0 the Handler calls
\* setPosition(ENCODERS[j].id, 0.5) for every encoder j, and calls the
\* view's resetEncoderPositions() once, after the last setPosition call
\* and never before or between them.
C5_HardwareBeforeView ==
    (event.ev = "press" /\ event.index = 0) =>
        /\ Cardinality(CallsOf("resetEncoderPositions")) = 1
        /\ \A j \in 0 .. ENCODER_COUNT - 1 :
              \E n \in CallsOf("setPosition") :
                  calls[n].id = EncoderId(j) /\ 2 * calls[n].pos = Den
        /\ \A n \in CallsOf("setPosition") :
              \A r \in CallsOf("resetEncoderPositions") : n < r

C5_Witness ==
    /\ event.ev = "press"
    /\ event.index = 0
    /\ Cardinality(CallsOf("setPosition")) = ENCODER_COUNT
    /\ calls[Len(calls)].op = "resetEncoderPositions"

\* C6: when the press callback of button 0 returns, every encoder's
\* hardware position is 0.5 and every encoder slider shows 50, whatever
\* the positions and displayed values were before the press.
C6_ResetToDefault ==
    (event.ev = "press" /\ event.index = 0) =>
        \A j \in 0 .. ENCODER_COUNT - 1 :
            /\ 2 * position[j] = Den
            /\ sliders_[j] = 50

C6_Witness ==
    /\ event.ev = "press"
    /\ event.index = 0
    /\ event.stale
    /\ \A j \in 0 .. ENCODER_COUNT - 1 : 2 * position[j] = Den /\ sliders_[j] = 50

\* C7: a press of button 0 emits exactly one MIDI message, the button's
\* own CC (BTN_CC_RANGE_START + 0, value 127); the reset emits no CC on
\* any encoder controller.
C7_ResetSendsNoCC ==
    (event.ev = "press" /\ event.index = 0) =>
        /\ Cardinality(CallsOf("sendCC")) = 1
        /\ \A n \in CallsOf("sendCC") :
              /\ calls[n].cc = BTN_CC_RANGE_START
              /\ calls[n].value = 127
              /\ calls[n].cc \notin
                    {ENC_CC_RANGE_START + j : j \in 0 .. ENCODER_COUNT - 1}

C7_Witness ==
    /\ event.ev = "press"
    /\ event.index = 0
    /\ CallsOf("setPosition") # {}
    /\ Cardinality(CallsOf("sendCC")) = 1
    /\ calls[1].op = "sendCC"

Shipped == ENCODERS = <<10, 11>> /\ BUTTONS = <<100>>

\* the one MIDI message of the last event is CC(channel, cc, value)
OnlyCC(channel, cc) ==
    /\ Cardinality(CallsOf("sendCC")) = 1
    /\ \A n \in CallsOf("sendCC") :
          calls[n].channel = channel /\ calls[n].cc = cc

Registered(ev, id) ==
    {n \in DOMAIN bindings : bindings[n].ev = ev /\ bindings[n].id = id}

\* exactly one registration for (ev, id), and it captured the index i
OneCallback(ev, id, i) ==
    /\ Cardinality(Registered(ev, id)) = 1
    /\ \A n \in Registered(ev, id) : bindings[n].index = i

\* C9: a single call of bind() registers exactly one turned callback per
\* encoder descriptor and exactly one pressed and one released callback per
\* button descriptor, each keyed by the descriptor's id and capturing the
\* descriptor's own index; none is skipped and none is registered twice.
C9_OneCallbackPerControl ==
    bindCount = 1 =>
        /\ \A i \in 0 .. ENCODER_COUNT - 1 : OneCallback("turn", EncoderId(i), i)
        /\ \A i \in 0 .. BUTTON_COUNT - 1 :
              /\ OneCallback("press", ButtonId(i), i)
              /\ OneCallback("release", ButtonId(i), i)
        /\ Len(bindings) = ENCODER_COUNT + 2 * BUTTON_COUNT

C9_Witness ==
    /\ bindCount = 1
    /\ BUTTON_COUNT = 2
    /\ Len(bindings) = 6
    /\ event.ev = "none"

\* C10: in the two-phase StandaloneContext, for any sequence of
\* initialize() and cleanup() calls, bind() runs exactly once on the
\* Handler instance, so no control has more than one callback registered
\* per event type by that Handler.
C10_BindRunsOnce ==
    /\ bindCount <= 1
    /\ \A n \in DOMAIN bindings :
          Cardinality(Registered(bindings[n].ev, bindings[n].id)) <= 1

\* the controller number the Handler emits for encoder i and for button i
EncoderCC(i) == SendEncoderCC(World(position), i, 0).calls[1].cc

ButtonCC(i) == SendButtonCC(World(position), i, 0).calls[1].cc

EncoderCCs == {EncoderCC(i) : i \in 0 .. ENCODER_COUNT - 1}

ButtonCCs == {ButtonCC(i) : i \in 0 .. BUTTON_COUNT - 1}

\* C12: for the configured tables the encoder controller numbers and the
\* button controller numbers are disjoint, distinct controls have distinct
\* controller numbers, every controller number lies in 0..127, and every CC
\* an event emits carries the number of its own control.
C12_CCRangesDisjoint ==
    /\ EncoderCCs \cap ButtonCCs = {}
    /\ Cardinality(EncoderCCs) = ENCODER_COUNT
    /\ Cardinality(ButtonCCs) = BUTTON_COUNT
    /\ (EncoderCCs \cup ButtonCCs) \subseteq 0 .. 127
    /\ \A n \in CallsOf("sendCC") :
          calls[n].cc = IF event.ev = "turn" THEN EncoderCC(event.index)
                                             ELSE ButtonCC(event.index)

C12_Witness ==
    /\ ENCODER_COUNT = 2
    /\ BUTTON_COUNT = 2
    /\ event.ev = "release"
    /\ event.index = 1
    /\ \E n \in DOMAIN calls : calls[n].op = "sendCC" /\ calls[n].cc = 11
    /\ EncoderCCs = {60, 61}

\* C19: in every callback the MIDI CC comes before any view call (before
\* setEncoder on a turn, before setButton on a press or a release), and on
\* a press of button 0 the CC and setButton(0, true) both come before the
\* first setPosition of the reset.
C19_CCBeforeView ==
    event.ev # "none" =>
        /\ CallsOf("sendCC") # {}
        /\ ViewCalls # {}
        /\ \A m \in CallsOf("sendCC") : \A n \in ViewCalls : m < n
        /\ event.ev = "turn" => CallsOf("setEncoder") # {}
        /\ event.ev \in {"press", "release"} => CallsOf("setButton") # {}
        /\ (event.ev = "press" /\ event.index = 0) =>
              /\ CallsOf("setPosition") # {}
              /\ \A n \in CallsOf("setPosition") :
                    /\ \A m \in CallsOf("sendCC") : m < n
                    /\ \E m \in CallsOf("setButton") :
                          /\ m < n
                          /\ calls[m].index = 0
                          /\ calls[m].pressed = TRUE

C19_Witness ==
    /\ event.ev = "press"
    /\ event.index = 0
    /\ Len(calls) = 3 + ENCODER_COUNT
    /\ calls[1].op = "sendCC"
    /\ calls[2].op = "setButton"
    /\ calls[3].op = "setPosition"

\* C20: a press of a button with index other than 0, and a release of any
\* button, calls neither setPosition nor resetEncoderPositions and leaves
\* every encoder position and every encoder slider as it was.
C20_OnlyButton0Resets ==
    [][(\/ event'.ev = "release"
        \/ (event'.ev = "press" /\ event'.index # 0)) =>
            /\ position' = position
            /\ sliders_' = sliders_
            /\ \A n \in DOMAIN calls' :
                  calls'[n].op \notin {"setPosition", "resetEncoderPositions"}
      ]_vars

C20_Witness ==
    /\ event.ev = "press"
    /\ event.index = 1
    /\ event.stale
    /\ \E j \in DOMAIN position : position[j] # DEFAULT_VALUE
    /\ \E j \in DOMAIN sliders_ : sliders_[j] # SliderValue(DEFAULT_VALUE)
    /\ Len(calls) = 2

\* the configuration is a legal one: controller ranges apart, every
\* controller number and the channel inside the MIDI range, one control
\* per id
ConfigValid ==
    /\ EncoderCCs \cap ButtonCCs = {}
    /\ (EncoderCCs \cup ButtonCCs) \subseteq 0 .. 127
    /\ CHANNEL \in 0 .. 15
    /\ Cardinality({EncoderId(i) : i \in 0 .. ENCODER_COUNT - 1}) = ENCODER_COUNT
    /\ Cardinality({ButtonId(i) : i \in 0 .. BUTTON_COUNT - 1}) = BUTTON_COUNT

\* C11: a configuration error (colliding controller ranges, a controller
\* number or channel outside the MIDI range, a table/id mismatch) is
\* detected at startup and is fatal: setup() ends in a halt, the main loop
\* is never entered and the Handler is never bound to emit from it.
C11_InvalidConfigHalts ==
    (~ConfigValid /\ stage # "boot") =>
        /\ stage = "halt"
        /\ bindCount = 0
        /\ updateNo = 0

\* the initialisation steps of setup() that failed
Failed == {n \in DOMAIN inits : ~inits[n].ok}

SetupOrder == <<"display", "lvgl", "app">>

InLoopCalls(call) == \E n \in DOMAIN iteration.calls : iteration.calls[n] = call

\* C13: in the Result-based main a failure of the display init, the LVGL
\* init or app->begin() halts the device inside setup(): the failed step is
\* the last one attempted, setup() never returns, update and refresh are
\* never called.
C13_ResultMainHalts ==
    (main = "result" /\ Failed # {}) =>
        /\ stage = "halt"
        /\ Failed = {Len(inits)}
        /\ updateNo = 0
        /\ refreshNo = 0

\* C14: in the bool mains setup() runs display, LVGL, app in this order; a
\* false result halts the device: the failed step is the last one run,
\* setup() never returns, update and refresh are never called.
C14_BoolMainHalts ==
    main \in {"bool", "delta"} =>
        /\ Len(inits) <= 3
        /\ \A n \in DOMAIN inits : inits[n].step = SetupOrder[n]
        /\ Failed # {} =>
              /\ stage = "halt"
              /\ Failed = {Len(inits)}
              /\ updateNo = 0
              /\ refreshNo = 0
              /\ iteration = NoIteration
        /\ stage = "halt" => Failed # {}
        /\ stage = "loop" => (Len(inits) = 3 /\ Failed = {})

C14_Witness ==
    /\ main = "delta"
    /\ stage = "halt"
    /\ Len(inits) = 2
    /\ inits[1] = InitStep("display", TRUE)
    /\ inits[2] = InitStep("lvgl", FALSE)

\* C15: between two consecutive app->update() calls at least APP_PERIOD_US
\* microseconds have elapsed, also when micros() wraps around between them.
C15_UpdatePeriod ==
    (InLoopCalls("update") /\ iteration.updateGap # -1) =>
        iteration.updateGap >= APP_PERIOD_US

\* an update just after the wraparound, the one before it just before
C15_Witness ==
    /\ InLoopCalls("update")
    /\ micros.hi = 0
    /\ micros.lo < APP_PERIOD_US
    /\ micros.lo = clock - WrapLead
    /\ lastMicros = micros
    /\ iteration.updateGap > micros.lo
    /\ iteration.updateGap >= APP_PERIOD_US

\* updates per refresh
Ratio == LVGL_PERIOD_US \div APP_PERIOD_US

\* C16: in the loop that accumulates the nominal period, refresh() is
\* called on exactly every Ratio-th update (every 20th), in the iteration
\* of that update and after it, and after every iteration the accumulator
\* is a multiple of APP_PERIOD_US strictly below LVGL_PERIOD_US.
C16_RefreshEveryRatioUpdates ==
    main \in {"result", "bool"} =>
        /\ lvglAccumulator.hi = 0
        /\ lvglAccumulator.lo % APP_PERIOD_US = 0
        /\ lvglAccumulator.lo < LVGL_PERIOD_US
        /\ lvglAccumulator.lo = (updateNo % Ratio) * APP_PERIOD_US
        /\ refreshNo = updateNo \div Ratio
        /\ iteration.calls \in {<<>>, <<"update">>, <<"update", "refresh">>}
        /\ InLoopCalls("refresh") <=>
              (InLoopCalls("update") /\ updateNo % Ratio = 0)

C16_Witness ==
    /\ main = "bool"
    /\ Ratio = 20
    /\ updateNo = 2 * Ratio
    /\ refreshNo = 2
    /\ iteration.calls = <<"update", "refresh">>
    /\ lvglAccumulator = Word(0)

\* C17: in every main, two consecutive refresh() calls are at least
\* LVGL_PERIOD_US microseconds apart, with the nominal as with the
\* measured accumulation.
C17_RefreshPeriod ==
    (InLoopCalls("refresh") /\ iteration.refreshGap # -1) =>
        iteration.refreshGap >= LVGL_PERIOD_US

C17_Witness ==
    /\ main = "delta"
    /\ InLoopCalls("refresh")
    /\ refreshNo >= 2
    /\ iteration.refreshGap >= LVGL_PERIOD_US
    /\ iteration.refreshGap < LVGL_PERIOD_US + APP_PERIOD_US

\* C18: once setup() has returned, while loop() keeps being invoked every
\* further app->update() call eventually comes, up to the number of
\* updates explored, and with them a refresh() call for every Ratio
\* updates: neither is starved by the period check or by the accumulator
\* reset.
C18_UpdateAndRefreshRecur ==
    (stage = "loop") ~>
        (updateNo = MaxUpdates /\ refreshNo >= MaxUpdates \div Ratio)

C18_Witness ==
    /\ stage = "loop"
    /\ updateNo = MaxUpdates
    /\ refreshNo >= MaxUpdates \div Ratio
    /\ refreshNo >= 2
    /\ InLoopCalls("update")

SetPositionCalls(log) == {n \in DOMAIN log : log[n].op = "setPosition"}

\* C21: a turned event for encoder i gives slider i the event's value and
\* changes nothing else in the view: every other slider and every button
\* indicator keep their value, and no setPosition is called.
C21_TurnChangesOnlyItsSlider ==
    [][event'.ev = "turn" =>
          /\ sliders_'[event'.index] = SliderValue(event'.value)
          /\ \A j \in DOMAIN sliders_ :
                j # event'.index => sliders_'[j] = sliders_[j]
          /\ buttons_' = buttons_
          /\ SetPositionCalls(calls') = {}
      ]_vars

C21_Witness ==
    /\ event.ev = "turn"
    /\ event.index = 0
    /\ sliders_[0] = 100
    /\ sliders_[1] = 25
    /\ \E i \in DOMAIN buttons_ : buttons_[i]
    /\ SetPositionCalls(calls) = {}

\* C22: every MIDI CC the Handler emits, after any sequence of events with
\* encoder values in [0,1], has channel in 0..15, controller in 0..127 and
\* value in 0..127.
C22_CCInMidiRange ==
    \A n \in CallsOf("sendCC") :
        /\ calls[n].channel \in 0 .. 15
        /\ calls[n].cc \in 0 .. 127
        /\ calls[n].value \in 0 .. 127

C22_Witness ==
    /\ event.ev = "turn"
    /\ event.value = Den
    /\ button0Pressed
    /\ \E n \in CallsOf("sendCC") :
          calls[n] = [op |-> "sendCC", channel |-> 0, cc |-> 61, value |-> 127]

\* C23: every callback ends after a fixed number of collaborator calls: 2
\* for a turn, for a release and for a press of a button other than
\* button 0 (one sendCC, one view update), ENCODER_COUNT + 3 for a press of
\* button 0 (sendCC, setButton, one setPosition per encoder,
\* resetEncoderPositions).
C23_BoundedCalls ==
    /\ event.ev \in {"turn", "release"} =>
          /\ Len(calls) = 2
          /\ Cardinality(CallsOf("sendCC")) = 1
          /\ Cardinality(ViewCalls) = 1
    /\ (event.ev = "press" /\ event.index # 0) =>
          /\ Len(calls) = 2
          /\ Cardinality(CallsOf("sendCC")) = 1
          /\ Cardinality(ViewCalls) = 1
    /\ (event.ev = "press" /\ event.index = 0) =>
          /\ Len(calls) = ENCODER_COUNT + 3
          /\ Cardinality(CallsOf("sendCC")) = 1
          /\ Cardinality(CallsOf("setButton")) = 1
          /\ Cardinality(CallsOf("setPosition")) = ENCODER_COUNT
          /\ Cardinality(CallsOf("resetEncoderPositions")) = 1

C23_Witness ==
    /\ event.ev = "press"
    /\ event.index = 0
    /\ ENCODER_COUNT = 2
    /\ BUTTON_COUNT = 2
    /\ Len(calls) = 5
    /\ lastCC[BTN_CC_RANGE_START + 1] = 0

\* every slider shows the value its encoder is at
Synced ==
    \A j \in DOMAIN position : sliders_[j] = SliderValue(position[j])

\* C24: once button 0 has been pressed, after every callback the value
\* last given to slider j is the hardware position of encoder j, for every
\* encoder j (every position change being reported by a turned event).
C24_SlidersFollowEncoders == button0Pressed => Synced

C24_Witness ==
    /\ button0Pressed
    /\ event.ev = "release"
    /\ position[0] = 0
    /\ position[1] = Den
    /\ sliders_[0] = 0
    /\ sliders_[1] = 100

\* C25: for every button i that has received an event, the state last
\* given to indicator i is pressed exactly if the last CC sent on
\* controller BTN_CC_RANGE_START + i had value 127.
C25_IndicatorMatchesLastCC ==
    \A i \in 0 .. BUTTON_COUNT - 1 :
        /\ buttons_[i] <=> lastCC[BTN_CC_RANGE_START + i] = 127
        /\ (event.ev \in {"press", "release"} /\ event.index = i) =>
              lastCC[BTN_CC_RANGE_START + i] \in {0, 127}

C25_Witness ==
    /\ BUTTON_COUNT = 2
    /\ buttons_[0] = FALSE
    /\ lastCC[BTN_CC_RANGE_START] = 0
    /\ buttons_[1] = TRUE
    /\ lastCC[BTN_CC_RANGE_START + 1] = 127
    /\ event.ev = "turn"

\* C26: every index a bound callback forwards to the view is the index of
\* a widget the view has built (one slider per encoder, one indicator per
\* button), so the bounds checks of setEncoder and setButton drop no
\* update: the widget shows the forwarded value.
C26_IndicesInWidgetRange ==
    /\ DOMAIN sliders_ = 0 .. ENCODER_COUNT - 1
    /\ DOMAIN buttons_ = 0 .. BUTTON_COUNT - 1
    /\ \A n \in CallsOf("setEncoder") :
          /\ calls[n].index \in DOMAIN sliders_
          /\ sliders_[calls[n].index] = SliderValue(calls[n].v)
    /\ \A n \in CallsOf("setButton") :
          /\ calls[n].index \in DOMAIN buttons_
          /\ buttons_[calls[n].index] = calls[n].pressed

C26_Witness ==
    /\ event.ev = "turn"
    /\ event.index = ENCODER_COUNT - 1
    /\ event.value = 0
    /\ \E n \in CallsOf("setEncoder") : calls[n].index = ENCODER_COUNT - 1
    /\ sliders_[ENCODER_COUNT - 1] = 0

====
